---- MODULE Spec2Model ----
(***************************************************************************)
(* The Excelinator (src/src/app.py): reconcile an origin table with a      *)
(* partner table by key, mark matches, left-join copied partner columns,   *)
(* read the origin whole or in chunks.                                     *)
(*                                                                         *)
(* A DataFrame is a record [columns, rows]: columns a sequence of labels,  *)
(* rows a sequence of rows, each a sequence of cells addressed by column   *)
(* POSITION, so that a frame with two columns of the same label can be     *)
(* represented.  Every cell is a string; Null stands for NaN.              *)
(***************************************************************************)
EXTENDS Integers, Sequences, FiniteSets, TLC

(***************************************************************************)
(* Bounds of the model.                                                    *)
(***************************************************************************)
MaxRows == 2
MaxPartnerRows == 2
MaxChunkRows == 2

(***************************************************************************)
(* Program constants.                                                      *)
(***************************************************************************)
MAX_BYTES_SIZE == 14680064

Null == "NaN"
NoError == ""

(***************************************************************************)
(* Sequence helpers.                                                       *)
(***************************************************************************)
Contains(seq, x) == \E i \in DOMAIN seq : seq[i] = x

IndexOf(seq, x) == CHOOSE i \in DOMAIN seq : seq[i] = x /\ \A j \in 1..(i-1) : seq[j] # x

Count(seq, x) == Cardinality({i \in DOMAIN seq : seq[i] = x})

Indices(seq) == [i \in 1..Len(seq) |-> i]

Pick(seq, idxs) == [k \in 1..Len(idxs) |-> seq[idxs[k]]]

(***************************************************************************)
(* pandas primitives used by the program.                                  *)
(***************************************************************************)
EmptyFrame == [columns |-> <<>>, rows |-> <<>>]

\* df.loc[:, name]: the cells of the (first) column labelled name
Column(df, name) == [i \in 1..Len(df.rows) |-> df.rows[i][IndexOf(df.columns, name)]]

\* df[name] = values: overwrite the column when the label exists, else append it
SetColumn(df, name, values) ==
    IF Contains(df.columns, name)
    THEN [columns |-> df.columns,
          rows |-> [i \in 1..Len(df.rows) |->
                      [df.rows[i] EXCEPT ![IndexOf(df.columns, name)] = values[i]]]]
    ELSE [columns |-> Append(df.columns, name),
          rows |-> [i \in 1..Len(df.rows) |-> Append(df.rows[i], values[i])]]

\* df.loc[mask]
FilterRows(df, mask) ==
    [columns |-> df.columns,
     rows |-> Pick(df.rows, SelectSeq(Indices(df.rows), LAMBDA i : mask[i]))]

\* df.drop(columns=labels): a new frame without the columns so labelled
DropColumns(df, labels) ==
    LET keep == SelectSeq(Indices(df.columns), LAMBDA c : ~Contains(labels, df.columns[c]))
    IN [columns |-> Pick(df.columns, keep),
        rows |-> [i \in 1..Len(df.rows) |-> Pick(df.rows[i], keep)]]

\* df.drop_duplicates(subset=key, ignore_index=True): keep="first" is the default
DropDuplicates(df, key) ==
    LET k == Column(df, key)
    IN FilterRows(df, [i \in 1..Len(df.rows) |-> \A j \in 1..(i-1) : k[j] # k[i]])

\* series.isin(values)
IsIn(series, values) ==
    [i \in 1..Len(series) |-> \E j \in DOMAIN values : values[j] = series[i]]

(***************************************************************************)
(* avoid_similar_columns (app.py 103-124)                                  *)
(***************************************************************************)
RECURSIVE AvoidLoop(_, _, _, _)
AvoidLoop(column_name, column_list, ult_name, copy_count) ==
    IF Contains(column_list, ult_name)
    THEN AvoidLoop(column_name, column_list,
                   column_name \o "_" \o ToString(copy_count + 1), copy_count + 1)
    ELSE ult_name

avoid_similar_columns(column_name, column_list) ==
    AvoidLoop(column_name, column_list, column_name, 1)

(***************************************************************************)
(* mark_matches (app.py 127-175).  The result is a record: error (NoError  *)
(* when the call returns), ret (the returned copy) and dataset_a (the      *)
(* caller's frame after the call: line 166 adds the column in place).      *)
(***************************************************************************)
\* mutant of mapping: the two entries of the lookup table exchanged
mapping_swapped(x, match_marker, missmatch_marker) ==
    IF x THEN missmatch_marker ELSE match_marker

\* lines 159-162 and the lambda of line 167: mapping.get(bool(x), x)
mapping(x, match_marker, missmatch_marker) ==
    IF x THEN match_marker ELSE missmatch_marker

\* lines 164-168: the cells written to the result column
match_column(dataset_a, dataset_b, index_column_a, index_column_b, match_marker, missmatch_marker) ==
    LET index_a == Column(dataset_a, index_column_a)
        index_b == Column(dataset_b, index_column_b)
        hit == IsIn(index_a, index_b)
    IN [i \in 1..Len(index_a) |-> mapping(hit[i], match_marker, missmatch_marker)]

\* lines 170-173: the rows kept when drop_missmatches is set
match_mask(dataset_a, result_column_name, match_marker) ==
    LET col == Column(dataset_a, result_column_name)
    IN [i \in 1..Len(col) |-> col[i] = match_marker]

mark_matches(dataset_a, dataset_b, index_column_a, index_column_b, result_column_name, match_marker, missmatch_marker, drop_missmatches) ==
    IF ~Contains(dataset_a.columns, index_column_a)
    THEN [error |-> "SystemExit: origin index invalid",
          ret |-> EmptyFrame, dataset_a |-> dataset_a]
    ELSE IF ~Contains(dataset_b.columns, index_column_b)
    THEN [error |-> "SystemExit: partner index invalid",
          ret |-> EmptyFrame, dataset_a |-> dataset_a]
    ELSE LET marked == SetColumn(dataset_a, result_column_name,
                           match_column(dataset_a, dataset_b, index_column_a,
                                        index_column_b, match_marker, missmatch_marker))
         IN [error |-> NoError,
             ret |-> IF drop_missmatches
                     THEN FilterRows(marked, match_mask(marked, result_column_name,
                                                        match_marker))
                     ELSE marked,
             dataset_a |-> marked]

(***************************************************************************)
(* "x in s" for two Python strings is a substring test.  The labels of     *)
(* the model are enumerated: the proper substrings among them are listed.  *)
(***************************************************************************)
StrContains(hay, needle) ==
    \/ hay = needle
    \/ <<hay, needle>> \in {<<"pid", "id">>, <<"name_2", "name">>, <<"name_2", "_2">>}

\* mark_matches handed a str as dataset_a (a column label): the checks of
\* lines 149 and 154 are substring or membership tests, line 164 then fails
\* because str has no attribute loc.
mark_matches_str(label, dataset_b, index_column_a, index_column_b) ==
    IF ~StrContains(label, index_column_a)
    THEN "SystemExit: origin index invalid"
    ELSE IF ~Contains(dataset_b.columns, index_column_b)
    THEN "SystemExit: partner index invalid"
    ELSE "AttributeError: str has no loc"

(***************************************************************************)
(* pd.merge(left, right, left_on, right_on, how="left") and pd.concat.     *)
(***************************************************************************)
RECURSIVE JoinRows(_, _, _, _, _, _)
JoinRows(left, right, lkey, rkey, rkeep, i) ==
    IF i > Len(left.rows) THEN <<>>
    ELSE LET m == SelectSeq(Indices(right.rows), LAMBDA j : rkey[j] = lkey[i])
             here == IF m = <<>>
                     THEN << left.rows[i] \o [k \in 1..Len(rkeep) |-> Null] >>
                     ELSE [k \in 1..Len(m) |->
                             left.rows[i] \o Pick(right.rows[m[k]], rkeep)]
         IN here \o JoinRows(left, right, lkey, rkey, rkeep, i + 1)

pd_merge(left, right, left_on, right_on) ==
    IF ~Contains(left.columns, left_on) \/ ~Contains(right.columns, right_on)
    THEN [error |-> "KeyError", df |-> EmptyFrame]
    ELSE IF Count(left.columns, left_on) > 1 \/ Count(right.columns, right_on) > 1
    THEN [error |-> "ValueError: label not unique", df |-> EmptyFrame]
    ELSE
    LET \* a key of the same name on both sides gives one column, the left one
        rkeep == SelectSeq(Indices(right.columns),
                     LAMBDA c : ~(left_on = right_on /\ right.columns[c] = right_on))
        rcols == Pick(right.columns, rkeep)
        overlap(n) == Contains(left.columns, n) /\ Contains(rcols, n)
        llabels == [c \in 1..Len(left.columns) |->
                      IF overlap(left.columns[c]) THEN left.columns[c] \o "_x"
                      ELSE left.columns[c]]
        rlabels == [c \in 1..Len(rcols) |->
                      IF overlap(rcols[c]) THEN rcols[c] \o "_y" ELSE rcols[c]]
        \* suffixes that create a label which was not duplicated before
        dups == \/ \E c, d \in 1..Len(llabels) :
                      c # d /\ llabels[c] = llabels[d] /\ left.columns[c] # left.columns[d]
                \/ \E c, d \in 1..Len(rlabels) :
                      c # d /\ rlabels[c] = rlabels[d] /\ rcols[c] # rcols[d]
    IN IF dups THEN [error |-> "MergeError", df |-> EmptyFrame]
       ELSE [error |-> NoError,
             df |-> [columns |-> llabels \o rlabels,
                     rows |-> JoinRows(left, right, Column(left, left_on),
                                       Column(right, right_on), rkeep, 1)]]

HasDuplicates(seq) == \E i, j \in DOMAIN seq : i # j /\ seq[i] = seq[j]

\* a row of frame df laid out on the column list cols (NaN where df lacks one)
Reindex(df, cols) ==
    [i \in 1..Len(df.rows) |->
       [c \in 1..Len(cols) |->
          IF Contains(df.columns, cols[c])
          THEN df.rows[i][IndexOf(df.columns, cols[c])] ELSE Null]]

\* mutant of pd_concat: the list handed to pd.concat in the other order
pd_concat_reversed(a, b) ==
    IF Len(a.columns) = 0 /\ Len(a.rows) = 0 THEN [error |-> NoError, df |-> b]
    ELSE [error |-> NoError, df |-> [columns |-> b.columns, rows |-> b.rows \o a.rows]]

\* pd.concat([a, b]): frames of shape (0, 0) are left out when another is not
pd_concat(a, b) ==
    IF Len(a.columns) = 0 /\ Len(a.rows) = 0 THEN [error |-> NoError, df |-> b]
    ELSE IF Len(b.columns) = 0 /\ Len(b.rows) = 0 THEN [error |-> NoError, df |-> a]
    ELSE IF a.columns = b.columns
    THEN [error |-> NoError, df |-> [columns |-> a.columns, rows |-> a.rows \o b.rows]]
    ELSE IF HasDuplicates(a.columns) \/ HasDuplicates(b.columns)
    THEN [error |-> "InvalidIndexError", df |-> EmptyFrame]
    ELSE LET cols == a.columns \o SelectSeq(b.columns, LAMBDA n : ~Contains(a.columns, n))
         IN [error |-> NoError,
             df |-> [columns |-> cols, rows |-> Reindex(a, cols) \o Reindex(b, cols)]]

(***************************************************************************)
(* merge_datasets (app.py 178-229).  The result is a record: error, ret    *)
(* (the returned frame), and the caller's objects after the call:          *)
(* dataset_b (the partner frame) and copy_columns (the list passed in).    *)
(***************************************************************************)
\* lines 196-197: a copy of the list, with the partner key appended to the copy
needed_columns(copy_columns, index_column_b) ==
    [needed |-> Append(copy_columns, index_column_b), copy_columns |-> copy_columns]

\* lines 199-201
nonexistent_columns(needed, dataset_b) ==
    SelectSeq(needed, LAMBDA x : ~Contains(dataset_b.columns, x))

\* lines 208-210
unneeded_partner_columns(needed, dataset_b) ==
    SelectSeq(dataset_b.columns, LAMBDA x : ~Contains(needed, x))

\* mutant of partner_view: the columns dropped in place, the local name still
\* bound to the caller's frame
partner_view_inplace(dataset_b, unneeded) ==
    [local |-> DropColumns(dataset_b, unneeded), aliased |-> TRUE]

\* line 212: drop(inplace=False) returns a new frame, to which the local name
\* dataset_b is bound; the caller's frame is another object from here on
partner_view(dataset_b, unneeded) ==
    [local |-> DropColumns(dataset_b, unneeded), aliased |-> FALSE]

\* mutant of deduplicated: the call of drop_duplicates left out
deduplicated_skipped(local, index_column_b) == local

\* mutant of deduplicated: drop_duplicates(keep="last")
deduplicated_keep_last(local, index_column_b) ==
    LET k == Column(local, index_column_b)
    IN FilterRows(local, [i \in 1..Len(local.rows) |->
                            \A j \in (i+1)..Len(local.rows) : k[j] # k[i]])

\* lines 213-214: drop_duplicates(inplace=True) on the local frame
deduplicated(local, index_column_b) == DropDuplicates(local, index_column_b)

\* lines 216-222
new_columns_set(columns, copy_columns, dataset_a) ==
    [c \in 1..Len(columns) |->
       IF Contains(copy_columns, columns[c])
       THEN avoid_similar_columns(columns[c], dataset_a.columns)
       ELSE columns[c]]

merge_datasets(dataset_a, dataset_b, index_column_a, index_column_b, copy_columns) ==
    LET nc == needed_columns(copy_columns, index_column_b)
        missing == nonexistent_columns(nc.needed, dataset_b)
    IN IF missing # <<>>
       THEN [error |-> "SystemExit: columns not in partner", ret |-> EmptyFrame,
             dataset_b |-> dataset_b, copy_columns |-> nc.copy_columns]
       ELSE LET view == partner_view(dataset_b,
                                     unneeded_partner_columns(nc.needed, dataset_b))
                dedup == deduplicated(view.local, index_column_b)
                renamed == [columns |-> new_columns_set(dedup.columns, nc.copy_columns,
                                                        dataset_a),
                            rows |-> dedup.rows]
                merged == pd_merge(dataset_a, renamed, index_column_a, index_column_b)
            IN [error |-> merged.error, ret |-> merged.df,
                dataset_b |-> IF view.aliased THEN renamed ELSE dataset_b,
                copy_columns |-> nc.copy_columns]

(***************************************************************************)
(* get_read_kwargs (app.py 289-324) and the read functions (338-342).      *)
(* The literal chunksize of line 321 (100000 rows) is scaled to the model: *)
(* rows_per_chunk stands for it.                                           *)
(***************************************************************************)
get_read_kwargs(file_extension, lazy_load, rows_per_chunk) ==
    IF file_extension = "xlsx" THEN [chunksize |-> 0]
    ELSE IF file_extension = "csv"
    THEN [chunksize |-> IF lazy_load THEN rows_per_chunk ELSE 0]
    ELSE [chunksize |-> 0]

\* pd.read_csv with a chunksize gives an iterator of frames, any other read a frame
read_file(file, read_kwargs) ==
    [kind |-> IF read_kwargs.chunksize > 0 THEN "reader" ELSE "frame",
     frame |-> file.frame,
     chunksize |-> read_kwargs.chunksize,
     first |-> TRUE]

\* line 355
lazy_load(bytesize) == bytesize >= MAX_BYTES_SIZE

\* the iterator of line 395 over a reader: a file without data rows gives one
\* empty chunk, then every chunk holds up to chunksize rows
HasNext(reader) == reader.first \/ Len(reader.frame.rows) > 0

ChunkLen(reader) ==
    IF Len(reader.frame.rows) < reader.chunksize
    THEN Len(reader.frame.rows) ELSE reader.chunksize

NextChunk(reader) ==
    [columns |-> reader.frame.columns,
     rows |-> SubSeq(reader.frame.rows, 1, ChunkLen(reader))]

Advance(reader) ==
    [reader EXCEPT !.first = FALSE,
                   !.frame.rows = SubSeq(reader.frame.rows, ChunkLen(reader) + 1,
                                         Len(reader.frame.rows))]

\* mutant of AfterRaise: the exception swallowed, the run going on to the writer
AfterRaiseSwallowed == "save"

\* where control goes when an exception leaves main (lines 150, 155, 204)
AfterRaise == "aborted"

(***************************************************************************)
(* to_upper (app.py 419): str.upper on the strings of the model.  NaN is   *)
(* not a str and digits have no case.                                      *)
(***************************************************************************)
UpperPairs ==
    {<<"id", "ID">>, <<"pid", "PID">>, <<"name", "NAME">>, <<"name_2", "NAME_2">>,
     <<"name_3", "NAME_3">>, <<"id_2", "ID_2">>, <<"zz", "ZZ">>,
     <<"a", "A">>, <<"b", "B">>, <<"c", "C">>, <<"d", "D">>,
     <<"e", "E">>, <<"f", "F">>, <<"g", "G">>, <<"h", "H">>,
     <<"p", "P">>, <<"q", "Q">>, <<"r", "R">>, <<"s", "S">>}

to_upper(x) ==
    IF \E pr \in UpperPairs : pr[1] = x
    THEN (CHOOSE pr \in UpperPairs : pr[1] = x)[2]
    ELSE x

\* lines 418-421
uppercased(df) ==
    [columns |-> [c \in 1..Len(df.columns) |-> to_upper(df.columns[c])],
     rows |-> [i \in 1..Len(df.rows) |->
                 [c \in 1..Len(df.rows[i]) |-> to_upper(df.rows[i][c])]]]

(***************************************************************************)
(* The inputs of a run: the parsed arguments and the two files.            *)
(***************************************************************************)
KeyVals == {"1", "2"}

KeySeqs(n) == UNION {[1..k -> KeyVals] : k \in 0..n}

\* the origin file: columns id and name, one row per key drawn
OriginColumns == <<"id", "name">>
OriginNames == <<"e", "f", "g", "h">>

\* the partner file: columns id, pid, name and name_2; the id cells are drawn,
\* the others are fixed by the row's position (pid repeats on the first rows)
PartnerColumns == <<"id", "pid", "name", "name_2">>
PartnerPids == <<"2", "2", "1", "1">>
PartnerNames == <<"a", "b", "c", "d">>
PartnerNames2 == <<"p", "q", "r", "s">>

OriginFrame(keys) ==
    [columns |-> OriginColumns,
     rows |-> [i \in 1..Len(keys) |-> <<keys[i], OriginNames[i]>>]]

PartnerFrame(keys) ==
    [columns |-> PartnerColumns,
     rows |-> [i \in 1..Len(keys) |->
                 <<keys[i], PartnerPids[i], PartnerNames[i], PartnerNames2[i]>>]]

OriginFiles ==
    {[extension |-> e, bytesize |-> b, frame |-> OriginFrame(k)] :
        e \in {"csv", "xlsx"}, b \in {MAX_BYTES_SIZE - 1, MAX_BYTES_SIZE},
        k \in KeySeqs(MaxRows)}

PartnerFiles ==
    {[extension |-> "csv", frame |-> PartnerFrame(k)] : k \in KeySeqs(MaxPartnerRows)}

NoFile == [extension |-> "", bytesize |-> 0, frame |-> EmptyFrame]

\* the defaults of lines 54-78
DefaultArguments ==
    [origin_index |-> "id", partner_index |-> "id", match_marker |-> "1",
     missmatch_marker |-> "0", results_column |-> "RESULTS", copy_columns |-> <<>>,
     delete_missmatches |-> FALSE]

CopyLists == {<<>>, <<"name">>, <<"name", "name_2">>, <<"id", "pid">>}

\* arguments naming columns that exist
ValidArguments ==
    [origin_index : {"id"},
     partner_index : {"id", "pid"},
     match_marker : {"1"},
     missmatch_marker : {"0", "1"},
     results_column : {"RESULTS"},
     copy_columns : CopyLists,
     delete_missmatches : BOOLEAN]

\* arguments naming a column that one of the files lacks
InvalidArguments ==
    {[DefaultArguments EXCEPT !.origin_index = "zz"],
     [DefaultArguments EXCEPT !.partner_index = "zz"],
     [DefaultArguments EXCEPT !.partner_index = "zz", !.copy_columns = <<"name">>],
     [DefaultArguments EXCEPT !.copy_columns = <<"zz">>],
     [DefaultArguments EXCEPT !.copy_columns = <<"name", "zz">>,
                              !.delete_missmatches = TRUE]}

Arguments == ValidArguments \cup InvalidArguments

NotWritten == [written |-> FALSE, format |-> "", frame |-> EmptyFrame]

(***************************************************************************)
(* main (app.py 327-433)                                                   *)
(***************************************************************************)
VARIABLES SYS_ARGS, origin_file, partner_file, pc, ORIGIN_LAZY_LOAD, origin_df,
          partner_df, chunk, chunk_matches, origin_matches, result_df, output, error

vars == <<SYS_ARGS, origin_file, partner_file, pc, ORIGIN_LAZY_LOAD, origin_df,
          partner_df, chunk, chunk_matches, origin_matches, result_df, output, error>>

Init ==
    /\ SYS_ARGS \in Arguments
    /\ origin_file = NoFile
    /\ partner_file = NoFile
    /\ pc = "start"
    /\ ORIGIN_LAZY_LOAD = FALSE
    /\ origin_df = [kind |-> "none", frame |-> EmptyFrame, chunksize |-> 0, first |-> TRUE]
    /\ partner_df = EmptyFrame
    /\ chunk = EmptyFrame
    /\ chunk_matches = EmptyFrame
    /\ origin_matches = EmptyFrame
    /\ result_df = EmptyFrame
    /\ output = NotWritten
    /\ error = NoError

\* lines 350-391: both files are read, the origin lazily when it is a big csv
Load ==
    /\ pc = "start"
    /\ \E o \in OriginFiles, p \in PartnerFiles, rows_per_chunk \in 1..MaxChunkRows :
          /\ origin_file' = o
          /\ partner_file' = p
          /\ ORIGIN_LAZY_LOAD' = lazy_load(o.bytesize)
          /\ origin_df' = read_file(o, get_read_kwargs(o.extension,
                                                       lazy_load(o.bytesize),
                                                       rows_per_chunk))
          /\ partner_df' = read_file(p, get_read_kwargs(p.extension, FALSE, 0)).frame
          /\ pc' = IF lazy_load(o.bytesize) THEN "loop" ELSE "whole"
    /\ result_df' = EmptyFrame
    /\ UNCHANGED <<SYS_ARGS, chunk, chunk_matches, origin_matches, output, error>>

MarkCall(dataset_a) ==
    mark_matches(dataset_a, partner_df, SYS_ARGS.origin_index, SYS_ARGS.partner_index,
                 SYS_ARGS.results_column, SYS_ARGS.match_marker,
                 SYS_ARGS.missmatch_marker, SYS_ARGS.delete_missmatches)

MergeCall(dataset_a) ==
    merge_datasets(dataset_a, partner_df, SYS_ARGS.origin_index, SYS_ARGS.partner_index,
                   SYS_ARGS.copy_columns)

\* lines 395-398: the next chunk of the reader is marked
ChunkMark ==
    /\ pc = "loop"
    /\ origin_df.kind = "reader"
    /\ HasNext(origin_df)
    /\ LET r == MarkCall(NextChunk(origin_df))
       IN /\ chunk' = r.dataset_a
          /\ error' = r.error
          /\ chunk_matches' = IF r.error = NoError THEN r.ret ELSE chunk_matches
          /\ pc' = IF r.error # NoError THEN AfterRaise
                   ELSE IF SYS_ARGS.copy_columns # <<>> THEN "chunk_merge"
                   ELSE "chunk_concat"
    /\ origin_df' = Advance(origin_df)
    /\ UNCHANGED <<SYS_ARGS, origin_file, partner_file, ORIGIN_LAZY_LOAD, partner_df,
                   origin_matches, result_df, output>>

\* lines 395-398 when origin_df is a frame: iterating a frame gives its column
\* labels, and mark_matches is handed the first label
LabelMark ==
    /\ pc = "loop"
    /\ origin_df.kind = "frame"
    /\ Len(origin_df.frame.columns) > 0
    /\ error' = mark_matches_str(origin_df.frame.columns[1], partner_df,
                                 SYS_ARGS.origin_index, SYS_ARGS.partner_index)
    /\ pc' = AfterRaise
    /\ UNCHANGED <<SYS_ARGS, origin_file, partner_file, ORIGIN_LAZY_LOAD, origin_df,
                   partner_df, chunk, chunk_matches, origin_matches, result_df, output>>

\* lines 399-402
ChunkMerge ==
    /\ pc = "chunk_merge"
    /\ LET r == MergeCall(chunk_matches)
       IN /\ error' = r.error
          /\ chunk_matches' = IF r.error = NoError THEN r.ret ELSE chunk_matches
          /\ partner_df' = r.dataset_b
          /\ SYS_ARGS' = [SYS_ARGS EXCEPT !.copy_columns = r.copy_columns]
          /\ pc' = IF r.error # NoError THEN AfterRaise ELSE "chunk_concat"
    /\ UNCHANGED <<origin_file, partner_file, ORIGIN_LAZY_LOAD, origin_df, chunk,
                   origin_matches, result_df, output>>

\* line 405
ChunkConcat ==
    /\ pc = "chunk_concat"
    /\ LET r == pd_concat(result_df, chunk_matches)
       IN /\ error' = r.error
          /\ result_df' = IF r.error = NoError THEN r.df ELSE result_df
          /\ pc' = IF r.error # NoError THEN AfterRaise ELSE "loop"
    /\ UNCHANGED <<SYS_ARGS, origin_file, partner_file, ORIGIN_LAZY_LOAD, origin_df,
                   partner_df, chunk, chunk_matches, origin_matches, output>>

\* lines 407-411, and line 415 when there is nothing to copy
WholeMark ==
    /\ pc = "whole"
    /\ LET r == MarkCall(origin_df.frame)
       IN /\ origin_df' = [origin_df EXCEPT !.frame = r.dataset_a]
          /\ error' = r.error
          /\ origin_matches' = IF r.error = NoError THEN r.ret ELSE origin_matches
          /\ result_df' = IF r.error = NoError /\ SYS_ARGS.copy_columns = <<>>
                          THEN r.ret ELSE result_df
          /\ pc' = IF r.error # NoError THEN AfterRaise
                   ELSE IF SYS_ARGS.copy_columns # <<>> THEN "whole_merge"
                   ELSE "save"
    /\ UNCHANGED <<SYS_ARGS, origin_file, partner_file, ORIGIN_LAZY_LOAD, partner_df,
                   chunk, chunk_matches, output>>

\* lines 412-415
WholeMerge ==
    /\ pc = "whole_merge"
    /\ LET r == MergeCall(origin_matches)
       IN /\ error' = r.error
          /\ origin_matches' = IF r.error = NoError THEN r.ret ELSE origin_matches
          /\ result_df' = IF r.error = NoError THEN r.ret ELSE result_df
          /\ partner_df' = r.dataset_b
          /\ SYS_ARGS' = [SYS_ARGS EXCEPT !.copy_columns = r.copy_columns]
          /\ pc' = IF r.error # NoError THEN AfterRaise ELSE "save"
    /\ UNCHANGED <<origin_file, partner_file, ORIGIN_LAZY_LOAD, origin_df, chunk,
                   chunk_matches, output>>

\* the for loop of line 395 has nothing left to give
LoopExhausted ==
    /\ pc = "loop"
    /\ \/ origin_df.kind = "reader" /\ ~HasNext(origin_df)
       \/ origin_df.kind = "frame" /\ Len(origin_df.frame.columns) = 0

\* lines 417-433; the options uppercase and xlsx are read here only
Save ==
    /\ pc = "save" \/ LoopExhausted
    /\ \E uppercase \in BOOLEAN, xlsx \in BOOLEAN :
          /\ result_df' = IF uppercase THEN uppercased(result_df) ELSE result_df
          /\ output' = [written |-> TRUE,
                        format |-> IF xlsx THEN "xlsx" ELSE "csv",
                        frame |-> result_df']
    /\ pc' = "done"
    /\ UNCHANGED <<SYS_ARGS, origin_file, partner_file, ORIGIN_LAZY_LOAD, origin_df,
                   partner_df, chunk, chunk_matches, origin_matches, error>>

Next ==
    \/ Load
    \/ ChunkMark
    \/ LabelMark
    \/ ChunkMerge
    \/ ChunkConcat
    \/ WholeMark
    \/ WholeMerge
    \/ Save

Spec == Init /\ [][Next]_vars

(***************************************************************************)
(* Reading a state: what the last call of mark_matches and merge_datasets  *)
(* was given and what it returned.                                         *)
(***************************************************************************)
\* the frame mark_matches was handed, after the call (result column added)
Marked == IF ORIGIN_LAZY_LOAD THEN chunk ELSE origin_df.frame

\* mark_matches has returned for the current chunk or for the whole origin
MarkDone ==
    \/ pc \in {"chunk_merge", "chunk_concat", "whole_merge"}
    \/ pc = "save" /\ ~ORIGIN_LAZY_LOAD

\* merge_datasets has returned for the current chunk or for the whole origin
MergeDone ==
    /\ SYS_ARGS.copy_columns # <<>>
    /\ \/ pc = "chunk_concat"
       \/ pc = "save" /\ ~ORIGIN_LAZY_LOAD

\* merge_datasets is about to be called
MergeDue == pc \in {"chunk_merge", "whole_merge"}

Merged == IF ORIGIN_LAZY_LOAD THEN chunk_matches ELSE origin_matches

\* the values of the partner key column in the partner file, every row counted
PartnerKeys == Column(partner_file.frame, SYS_ARGS.partner_index)

KeyOccurs(k) == \E j \in DOMAIN PartnerKeys : PartnerKeys[j] = k

MarkedKeys == Column(Marked, SYS_ARGS.origin_index)
MarkedResults == Column(Marked, SYS_ARGS.results_column)

\* the rows of the marked frame that mark_matches returns
KeptRows ==
    SelectSeq(Indices(Marked.rows),
              LAMBDA i : ~SYS_ARGS.delete_missmatches
                         \/ MarkedResults[i] = SYS_ARGS.match_marker)

\* the first partner row holding key k (0 if none)
FirstPartnerRow(k) ==
    IF KeyOccurs(k)
    THEN CHOOSE j \in DOMAIN PartnerKeys :
            PartnerKeys[j] = k /\ \A h \in 1..(j-1) : PartnerKeys[h] # k
    ELSE 0

\* the partner columns merge_datasets joins, in partner order, and which of
\* them the join adds to the result (a key of the origin key's name is not added)
NeededLabels ==
    SelectSeq(partner_file.frame.columns,
              LAMBDA n : Contains(SYS_ARGS.copy_columns, n) \/ n = SYS_ARGS.partner_index)

AddedLabels ==
    SelectSeq(NeededLabels,
              LAMBDA n : ~(n = SYS_ARGS.partner_index
                           /\ SYS_ARGS.partner_index = SYS_ARGS.origin_index))

\* the names merge_datasets gives the columns of the reduced partner view (the
\* frame it is given has the columns of the marked frame)
RenamedLabels == new_columns_set(NeededLabels, SYS_ARGS.copy_columns, Marked)

\* the final names of the copied columns
CopiedNames ==
    Pick(RenamedLabels,
         SelectSeq(Indices(NeededLabels),
                   LAMBDA c : Contains(SYS_ARGS.copy_columns, NeededLabels[c])))

\* every name in copy_columns and the partner key exist in the partner
PreconditionHolds ==
    \A n \in {SYS_ARGS.copy_columns[c] : c \in DOMAIN SYS_ARGS.copy_columns}
             \cup {SYS_ARGS.partner_index} : Contains(partner_file.frame.columns, n)

(***************************************************************************)
(* C1                                                                      *)
(***************************************************************************)
\* C1 as stated: after mark_matches, a row's result column equals match_marker
\* if and only if the row's key occurs in the partner key column, and equals
\* missmatch_marker otherwise, whatever the two markers are.
C1_MarkerIffKeyOccurs ==
    MarkDone =>
       \A i \in DOMAIN Marked.rows :
          /\ MarkedResults[i] = SYS_ARGS.match_marker <=> KeyOccurs(MarkedKeys[i])
          /\ ~KeyOccurs(MarkedKeys[i]) => MarkedResults[i] = SYS_ARGS.missmatch_marker

\* C1 amended: after mark_matches every row given to it is there, with its
\* result column holding match_marker when the row's key occurs in the
\* partner key column (duplicates included) and missmatch_marker when it does
\* not; "result = match_marker iff the key occurs" holds when the two markers
\* differ.
C1_MarkerByKeyOccurrence ==
    MarkDone =>
       /\ ORIGIN_LAZY_LOAD \/ Len(Marked.rows) = Len(origin_file.frame.rows)
       /\ \A i \in DOMAIN Marked.rows :
             /\ MarkedResults[i] = IF KeyOccurs(MarkedKeys[i])
                                   THEN SYS_ARGS.match_marker
                                   ELSE SYS_ARGS.missmatch_marker
             /\ SYS_ARGS.match_marker # SYS_ARGS.missmatch_marker =>
                   (MarkedResults[i] = SYS_ARGS.match_marker <=> KeyOccurs(MarkedKeys[i]))

\* a marked frame with a matched row whose key repeats in the partner, and an
\* unmatched row
C1_Witness ==
    /\ MarkDone
    /\ SYS_ARGS.match_marker # SYS_ARGS.missmatch_marker
    /\ \E i, h \in DOMAIN Marked.rows :
          /\ Count(PartnerKeys, MarkedKeys[i]) > 1
          /\ MarkedResults[i] = SYS_ARGS.match_marker
          /\ MarkedResults[h] = SYS_ARGS.missmatch_marker

(***************************************************************************)
(* C2                                                                      *)
(***************************************************************************)
\* C2 as stated: the result of mark_matches then merge_datasets has as many
\* rows as the origin when nothing is dropped, and as many as there are origin
\* rows whose key occurs in the partner when mismatches are dropped.
C2_RowCountIsMatchedCount ==
    MergeDone =>
       Len(Merged.rows) =
          IF SYS_ARGS.delete_missmatches
          THEN Cardinality({i \in DOMAIN Marked.rows : KeyOccurs(MarkedKeys[i])})
          ELSE Len(Marked.rows)

\* C2 amended: the row count equals the origin row count when nothing is
\* dropped and the number of origin rows whose result column equals
\* match_marker when mismatches are dropped (the matched rows when the markers
\* differ, every row when they are equal); it never exceeds the origin's.
C2_RowCount ==
    MergeDone =>
       /\ Len(Merged.rows) = Len(KeptRows)
       /\ ~SYS_ARGS.delete_missmatches => Len(Merged.rows) = Len(Marked.rows)
       /\ (SYS_ARGS.delete_missmatches
             /\ SYS_ARGS.match_marker # SYS_ARGS.missmatch_marker) =>
             Len(Merged.rows) =
                Cardinality({i \in DOMAIN Marked.rows : KeyOccurs(MarkedKeys[i])})
       /\ Len(Merged.rows) <= Len(Marked.rows)

\* a merge whose origin has a row with a key the partner repeats
C2_Witness ==
    /\ MergeDone
    /\ \E i \in DOMAIN Marked.rows : Count(PartnerKeys, MarkedKeys[i]) > 1
    /\ \E i \in DOMAIN Marked.rows : ~KeyOccurs(MarkedKeys[i])

(***************************************************************************)
(* C3                                                                      *)
(***************************************************************************)
\* whole-dataset mode on a frame: mark_matches, then merge_datasets when
\* there is something to copy (lines 409-415)
WholeResult(frame) ==
    LET m == mark_matches(frame, partner_file.frame, SYS_ARGS.origin_index,
                          SYS_ARGS.partner_index, SYS_ARGS.results_column,
                          SYS_ARGS.match_marker, SYS_ARGS.missmatch_marker,
                          SYS_ARGS.delete_missmatches)
        g == merge_datasets(m.ret, partner_file.frame, SYS_ARGS.origin_index,
                            SYS_ARGS.partner_index, SYS_ARGS.copy_columns)
    IN IF m.error # NoError THEN [error |-> m.error, df |-> EmptyFrame]
       ELSE IF SYS_ARGS.copy_columns = <<>> THEN [error |-> NoError, df |-> m.ret]
       ELSE [error |-> g.error, df |-> g.ret]

ChunkedRun == ORIGIN_LAZY_LOAD /\ origin_df.kind = "reader"

\* C3: when chunked mode has appended its last chunk, the accumulated result is
\* the result of whole-dataset mode on the same origin rows (same columns,
\* rows and order), for every chunk size and for an origin without rows; and
\* chunked mode fails exactly when whole-dataset mode fails.
C3_ChunkedEqualsWhole ==
    ChunkedRun =>
       /\ LoopExhausted =>
             /\ WholeResult(origin_file.frame).error = NoError
             /\ result_df = WholeResult(origin_file.frame).df
       /\ pc = "aborted" => WholeResult(origin_file.frame).error = error

\* a chunked run of at least two chunks, with copied columns, has finished
C3_Witness ==
    /\ ChunkedRun
    /\ LoopExhausted
    /\ origin_df.chunksize < Len(origin_file.frame.rows)
    /\ SYS_ARGS.copy_columns # <<>>
    /\ Len(result_df.rows) > 1

(***************************************************************************)
(* C4                                                                      *)
(***************************************************************************)
\* C4: the chunk loop is entered only for a csv origin at or above the size
\* threshold; an xlsx origin goes through whole-dataset mode whatever its size.
C4_LoopOnlyForBigCsv ==
    /\ pc = "loop" =>
          origin_file.extension = "csv" /\ origin_file.bytesize >= MAX_BYTES_SIZE
    /\ (pc # "start" /\ origin_file.extension = "xlsx") => ~ORIGIN_LAZY_LOAD

(***************************************************************************)
(* C5                                                                      *)
(***************************************************************************)
\* C5: the final names merge_datasets gives the copied columns are pairwise
\* distinct and none is a column of the origin.
C5_CopiedNamesDistinct ==
    (MergeDue /\ PreconditionHolds) =>
       /\ ~HasDuplicates(CopiedNames)
       /\ \A c \in DOMAIN CopiedNames : ~Contains(Marked.columns, CopiedNames[c])

(***************************************************************************)
(* C6                                                                      *)
(***************************************************************************)
\* C6: the columns of the result of merge_datasets are the origin's columns in
\* their order followed by the renamed copied columns, and no other; the
\* partner key is not an extra column.
C6_ResultColumns ==
    MergeDone => Merged.columns = Marked.columns \o CopiedNames

(***************************************************************************)
(* C7                                                                      *)
(***************************************************************************)
\* C7: the rows of the result of merge_datasets are the rows it was given, in
\* their order, each followed, for every copied column, by the value of that
\* column in the first partner row holding the row's key, and by null when no
\* partner row holds it.
C7_FirstPartnerRowCopied ==
    MergeDone =>
       /\ Len(Merged.rows) = Len(KeptRows)
       /\ \A i \in DOMAIN Merged.rows :
             LET given == Marked.rows[KeptRows[i]]
                 first == FirstPartnerRow(MarkedKeys[KeptRows[i]])
             IN /\ SubSeq(Merged.rows[i], 1, Len(given)) = given
                /\ Len(Merged.rows[i]) = Len(given) + Len(AddedLabels)
                /\ \A c \in DOMAIN AddedLabels :
                      Contains(SYS_ARGS.copy_columns, AddedLabels[c]) =>
                         Merged.rows[i][Len(given) + c] =
                            IF first = 0 THEN Null
                            ELSE partner_file.frame.rows[first]
                                    [IndexOf(partner_file.frame.columns, AddedLabels[c])]

\* a merge in which a row's key is held by two partner rows and another row's
\* key by none
C7_Witness ==
    /\ MergeDone
    /\ \E i \in DOMAIN Merged.rows :
          Count(PartnerKeys, MarkedKeys[KeptRows[i]]) > 1
    /\ \E i \in DOMAIN Merged.rows : ~KeyOccurs(MarkedKeys[KeptRows[i]])

(***************************************************************************)
(* C8                                                                      *)
(***************************************************************************)
\* C8: once mark_matches or merge_datasets has raised, for the whole origin or
\* for a chunk, the run is over and nothing has been or will be written.
C8_NoOutputAfterError ==
    error # NoError => (~output.written /\ pc \notin {"save", "loop", "done"})

\* a chunk of a chunked run made merge_datasets raise
C8_Witness ==
    /\ ChunkedRun
    /\ pc = "aborted"
    /\ error = "SystemExit: columns not in partner"
    /\ ~output.written

(***************************************************************************)
(* C9                                                                      *)
(***************************************************************************)
\* C9: for every input that passes the check of lines 199-206, the renamed
\* partner view still has a column named partner_key, so the join of line 227
\* finds it.
C9_PartnerKeyKeepsName ==
    /\ (MergeDue /\ PreconditionHolds) => Contains(RenamedLabels, SYS_ARGS.partner_index)
    /\ error # "KeyError"

(***************************************************************************)
(* C10                                                                     *)
(***************************************************************************)
\* C10: the partner frame read at the start is the same frame, column for
\* column and row for row, after every call of mark_matches and merge_datasets.
C10_PartnerUnchanged ==
    pc # "start" => partner_df = partner_file.frame

\* a second chunk has been merged against a partner with a repeated key
C10_Witness ==
    /\ ChunkedRun
    /\ pc = "chunk_concat"
    /\ SYS_ARGS.copy_columns # <<>>
    /\ Len(result_df.rows) > 0
    /\ HasDuplicates(PartnerKeys)

====
